---------------------------- MODULE Spec2Model ----------------------------
(***************************************************************************)
(* live-split-hotkeys: the hotkey engine (KeyState) in its two revisions,  *)
(* src/key.rs (kind-indexed EnumMap, results as a map of booleans) and     *)
(* src/main.rs (toggle combo apart, results as a list of keycode lists),   *)
(* and the listener of src/main.rs: one reader task per keyboard device    *)
(* feeding an unbounded channel, drained by the loop of                     *)
(* HotkeyListener::listen.                                                  *)
(***************************************************************************)
EXTENDS Integers, Sequences, FiniteSets, TLC

VARIABLES
    impl,            \* which revision runs: "key" (key.rs) or "main" (main.rs)
    state,           \* KeyState.state: Vec<bool>, indices 0 .. num_keys-1
    hotkeys,         \* key.rs: EnumMap<Hotkey, Vec<u32>>; main.rs: Vec<Vec<u32>>
    toggle_hotkey,   \* main.rs: Option<Vec<u32>>, <<>> for None, <<combo>> for Some
    hotkeys_enabled, \* KeyState.hotkeys_enabled
    min_keycode,     \* main.rs: KeyState.min_keycode
    result,          \* what the last handle_key call returned
    last,            \* history: the last handle_key call and the engine before it
    chord,           \* history: started Enabled, and only first presses so far
    panicked,        \* an index out of bounds has ended the process
    reader,          \* listen_keyboard per device: "spawned", "reading", "failed"
    read_log,        \* history: the records each device has produced
    sent_log,        \* history: the transitions each reader has sent
    channel,         \* the unbounded channel of (code, is_pressed)
    fed_log,         \* history: the transitions passed to handle_key, in order
    pc,              \* the loop of listen: "recv", "focus", "send", "sleep", "exited"
    cursor,          \* where the loops over active_hotkeys, EVENT_SEQUENCE, keys stand
    focused,         \* the X server: the LiveSplit window has the input focus
    xevents,         \* the synthetic events sent since the last recv
    error,           \* what listen returned: "none" while it runs, or the call
                     \* whose `?` returned the error
    input,           \* the resolver: the name or the combo text it is given
    output           \* the resolver: what map and map_combo returned for it

engine_vars == <<impl, state, hotkeys, toggle_hotkey, hotkeys_enabled,
                 min_keycode, result, last, chord, panicked>>

listen_vars == <<reader, read_log, sent_log, channel, fed_log, pc, cursor,
                 focused, xevents, error>>

resolver_vars == <<input, output>>

vars == <<engine_vars, listen_vars, resolver_vars>>

-----------------------------------------------------------------------------
(* Bounds *)

\* The largest code of the KEY table (0x2ff and more in the real table).
MaxKeyCode == 4

\* Every code the KEY table can hold, so every code a combo can hold and a
\* caller of handle_key can pass.
KeyCodes == 0..MaxKeyCode

\* The combos a hotkey element of the settings can resolve to; <<>> stands
\* for an element that is absent.  0 plays "G", 1 "R", 2 "Shift"; 3 is in no
\* combo; the last combo holds the largest code of the table.
ComboChoices == { <<>>, <<0>>, <<2>>, <<1, 2>>, <<0, MaxKeyCode>> }

\* xkb's minimum keycode of the keymap (8 on X11).
MinKeycodes == {8}

\* The records all devices produce in one run of the listener.
MaxRecords == 3

\* The keyboards listen spawns a reader for.
Devices == {"kbd0", "kbd1"}

-----------------------------------------------------------------------------
(* key.rs: Hotkey, in declaration order, which is EnumMap's iteration order *)

Hotkey == <<"SplitKey", "ResetKey", "SkipKey", "UndoKey", "PauseKey",
            "ToggleGlobalHotkeys">>

HotkeyKinds == {Hotkey[i] : i \in DOMAIN Hotkey}

Range(s) == {s[i] : i \in DOMAIN s}

\* KeyState::new, both revisions: num_keys is the largest code itself.
num_keys == MaxKeyCode

\* vec![false; num_keys]
NewState == [c \in 0..(num_keys - 1) |-> FALSE]

\* EnumMap::default(): every kind's result false.
DefaultResult == [h \in HotkeyKinds |-> FALSE]


-----------------------------------------------------------------------------
(* The index-out-of-bounds panics of self.state[..] *)

\* check_hotkey panics when `all` reaches a member that is no index of the
\* vector: `any` found the key, and every member before that one reads true
\* (`all` stops at the first false).
CheckPanics(st, key, hotkey) ==
    /\ \E i \in DOMAIN hotkey : hotkey[i] = key
    /\ \E i \in DOMAIN hotkey :
          /\ hotkey[i] \notin DOMAIN st
          /\ \A j \in 1..(i - 1) : hotkey[j] \in DOMAIN st /\ st[hotkey[j]]

\* What a call that panicked leaves: the process is gone.
Panic == [panicked |-> TRUE]

-----------------------------------------------------------------------------
(* key.rs: KeyState *)

\* Mutant: the membership test (`any`) is left out.
key_check_hotkey_all_only(st, key, hotkey) ==
    \A i \in DOMAIN hotkey : hotkey[i] \in DOMAIN st /\ st[hotkey[i]]

\* Mutant: a combo without members counts as one whose members are all held.
key_check_hotkey_empty_active(st, key, hotkey) ==
    \/ hotkey = <<>>
    \/ /\ \E i \in DOMAIN hotkey : hotkey[i] = key
       /\ \A i \in DOMAIN hotkey : hotkey[i] \in DOMAIN st /\ st[hotkey[i]]

\* hotkey.iter().any(|c| *c == key) && hotkey.iter().all(|c| self.state[*c])
key_check_hotkey(st, key, hotkey) ==
    /\ \E i \in DOMAIN hotkey : hotkey[i] = key
    /\ \A i \in DOMAIN hotkey : hotkey[i] \in DOMAIN st /\ st[hotkey[i]]

\* Mutant: the `if !self.hotkeys_enabled { continue; }` comes first in the
\* loop body, so the toggle combo is not evaluated while Disabled.
RECURSIVE key_for_hotkeys_gated(_, _, _, _, _, _)
key_for_hotkeys_gated(i, st, hks, key, enabled, res) ==
    IF i > Len(Hotkey)
    THEN [panicked |-> FALSE, state |-> st, enabled |-> enabled, result |-> res]
    ELSE IF ~enabled
    THEN key_for_hotkeys_gated(i + 1, st, hks, key, enabled, res)
    ELSE LET hotkey == Hotkey[i]
             combo  == hks[hotkey]
         IN  IF CheckPanics(st, key, combo)
             THEN Panic
             ELSE LET is_active == key_check_hotkey(st, key, combo)
                      flips     == is_active /\ hotkey = "ToggleGlobalHotkeys"
                  IN  IF flips
                      THEN [panicked |-> FALSE, state |-> st,
                            enabled |-> FALSE, result |-> DefaultResult]
                      ELSE key_for_hotkeys_gated(i + 1, st, hks, key, enabled,
                                           [res EXCEPT ![hotkey] = is_active])

\* One turn of `for (hotkey, combo) in &self.hotkeys`, from kind number i on,
\* with the enabled bit and the result as the turns before left them.
RECURSIVE key_for_hotkeys(_, _, _, _, _, _)
key_for_hotkeys(i, st, hks, key, enabled, res) ==
    IF i > Len(Hotkey)
    THEN [panicked |-> FALSE, state |-> st, enabled |-> enabled, result |-> res]
    ELSE LET hotkey == Hotkey[i]
             combo  == hks[hotkey]
         IN  IF CheckPanics(st, key, combo)
             THEN Panic
             ELSE LET is_active == key_check_hotkey(st, key, combo)
                      flips     == is_active /\ hotkey = "ToggleGlobalHotkeys"
                      enabled2  == IF flips THEN ~enabled ELSE enabled
                  IN  IF flips /\ ~enabled2
                      THEN [panicked |-> FALSE, state |-> st,
                            enabled |-> enabled2, result |-> DefaultResult]
                      ELSE IF ~enabled2
                      THEN key_for_hotkeys(i + 1, st, hks, key, enabled2, res)
                      ELSE key_for_hotkeys(i + 1, st, hks, key, enabled2,
                                           [res EXCEPT ![hotkey] = is_active])

\* Mutant: a release is not recorded before the combos are checked.
key_set_state_press_only(st, key, is_pressed) ==
    IF is_pressed THEN [st EXCEPT ![key] = TRUE] ELSE st

\* self.state[key as usize] = is_pressed
key_set_state(st, key, is_pressed) == [st EXCEPT ![key] = is_pressed]

\* Mutant: an edge-triggered engine, which evaluates no combo on a transition
\* that leaves the key as it was.
key_handle_key_edge(st, hks, enabled, key, is_pressed) ==
    IF key \notin DOMAIN st
    THEN Panic
    ELSE IF st[key] = is_pressed
    THEN [panicked |-> FALSE, state |-> st, enabled |-> enabled,
          result |-> DefaultResult]
    ELSE key_for_hotkeys(1, key_set_state(st, key, is_pressed), hks, key,
                         enabled, DefaultResult)

\* KeyState::handle_key of key.rs as a function of the engine and the call.
key_handle_key(st, hks, enabled, key, is_pressed) ==
    IF key \notin DOMAIN st
    THEN Panic
    ELSE key_for_hotkeys(1, key_set_state(st, key, is_pressed), hks, key,
                         enabled, DefaultResult)

-----------------------------------------------------------------------------
(* main.rs: KeyState *)

\* Mutant: `any` in the place of `all`, one held member is enough.
main_check_hotkey_any_held(st, key, hotkey) ==
    /\ \E i \in DOMAIN hotkey : hotkey[i] = key
    /\ \E i \in DOMAIN hotkey : hotkey[i] \in DOMAIN st /\ st[hotkey[i]]

\* Mutant: the membership test (`any`) is left out.
main_check_hotkey_all_only(st, key, hotkey) ==
    \A i \in DOMAIN hotkey : hotkey[i] \in DOMAIN st /\ st[hotkey[i]]

\* hotkey.iter().any(|c| *c == key) && hotkey.iter().all(|c| self.state[*c])
main_check_hotkey(st, key, hotkey) ==
    /\ \E i \in DOMAIN hotkey : hotkey[i] = key
    /\ \A i \in DOMAIN hotkey : hotkey[i] \in DOMAIN st /\ st[hotkey[i]]

\* hotkey.iter().map(|c| (*c as Keycode) + self.min_keycode).collect()
Keycodes(hotkey, minkc) == [i \in DOMAIN hotkey |-> hotkey[i] + minkc]

\* if let Some(toggle_hotkey) = .. { if self.check_hotkey(key, toggle_hotkey) ..
main_toggle_fires(st, toggle, key) ==
    toggle # <<>> /\ main_check_hotkey(st, key, toggle[1])

\* `for hotkey in &self.hotkeys`, from entry i on: the entries pushed.
RECURSIVE main_for_hotkeys(_, _, _, _, _)
main_for_hotkeys(i, st, hks, key, minkc) ==
    IF i > Len(hks)
    THEN <<>>
    ELSE IF main_check_hotkey(st, key, hks[i])
         THEN <<Keycodes(hks[i], minkc)>> \o main_for_hotkeys(i + 1, st, hks, key, minkc)
         ELSE main_for_hotkeys(i + 1, st, hks, key, minkc)

\* Mutant: the loop runs whatever the enabled bit is.
main_enabled_part_ungated(st, hks, key, minkc, enabled) ==
    main_for_hotkeys(1, st, hks, key, minkc)

\* if self.hotkeys_enabled { for hotkey in &self.hotkeys { .. } }
main_enabled_part(st, hks, key, minkc, enabled) ==
    IF enabled THEN main_for_hotkeys(1, st, hks, key, minkc) ELSE <<>>

\* Mutant: only a press is recorded, a release leaves the key held.
main_set_state_press_only(st, key, is_pressed) ==
    IF is_pressed THEN [st EXCEPT ![key] = TRUE] ELSE st

\* self.state[key as usize] = is_pressed
main_set_state(st, key, is_pressed) == [st EXCEPT ![key] = is_pressed]

\* Whether some check_hotkey call of handle_key panics.  The toggle combo is
\* checked first; the others only when the engine is enabled after it, in
\* order, and a panic ends the call wherever it happens.
main_panics(st, hks, toggle, key, enabled) ==
    \/ toggle # <<>> /\ CheckPanics(st, key, toggle[1])
    \/ /\ ~(toggle # <<>> /\ CheckPanics(st, key, toggle[1]))
       /\ (IF main_toggle_fires(st, toggle, key) THEN ~enabled ELSE enabled)
       /\ \E i \in DOMAIN hks : CheckPanics(st, key, hks[i])

\* Mutant: the toggle's entry is pushed after the entries of the loop.
main_handle_key_toggle_last(st, hks, toggle, enabled, minkc, key, is_pressed) ==
    IF key \notin DOMAIN st
    THEN Panic
    ELSE LET st2 == main_set_state(st, key, is_pressed)
         IN  IF main_panics(st2, hks, toggle, key, enabled)
             THEN Panic
             ELSE LET fires    == main_toggle_fires(st2, toggle, key)
                      enabled2 == IF fires THEN ~enabled ELSE enabled
                      first    == IF fires THEN <<Keycodes(toggle[1], minkc)>>
                                           ELSE <<>>
                  IN  [panicked |-> FALSE, state |-> st2, enabled |-> enabled2,
                       result |-> main_enabled_part(st2, hks, key, minkc, enabled2)
                                      \o first]

\* KeyState::handle_key of main.rs as a function of the engine and the call.
main_handle_key(st, hks, toggle, enabled, minkc, key, is_pressed) ==
    IF key \notin DOMAIN st
    THEN Panic
    ELSE LET st2 == main_set_state(st, key, is_pressed)
         IN  IF main_panics(st2, hks, toggle, key, enabled)
             THEN Panic
             ELSE LET fires    == main_toggle_fires(st2, toggle, key)
                      enabled2 == IF fires THEN ~enabled ELSE enabled
                      first    == IF fires THEN <<Keycodes(toggle[1], minkc)>>
                                           ELSE <<>>
                  IN  [panicked |-> FALSE, state |-> st2, enabled |-> enabled2,
                       result |-> first \o
                           main_enabled_part(st2, hks, key, minkc, enabled2)]

-----------------------------------------------------------------------------
(* KeyState::new: the table the settings give *)

\* key.rs: hotkeys[*hotkey] = mapper.map_combo(..); a kind with no element
\* keeps EnumMap::default()'s empty Vec.  The settings here hold a SplitKey,
\* a ResetKey and a ToggleGlobalHotkeys element, each present or absent.
KeyTable(split, reset, toggle) ==
    [h \in HotkeyKinds |->
        CASE h = "SplitKey" -> split
          [] h = "ResetKey" -> reset
          [] h = "ToggleGlobalHotkeys" -> toggle
          [] OTHER -> <<>>]

\* main.rs: hotkeys.push(mapper.map_combo(..)) per hotkey element, in the
\* order of the file; map_combo never returns an empty Vec.
MainTable(split, reset) == SelectSeq(<<split, reset>>, LAMBDA c : c # <<>>)

\* main.rs: toggle_hotkey = Some(mapper.map_combo(..)), None with no element.
MainToggle(toggle) == IF toggle = <<>> THEN <<>> ELSE <<toggle>>

NoCall(st, enabled) ==
    [called |-> FALSE, key |-> 0, is_pressed |-> FALSE,
     state |-> st, enabled |-> enabled]

InitEngine(which) ==
    \E split \in ComboChoices, reset \in ComboChoices, toggle \in ComboChoices,
       enabled \in BOOLEAN, minkc \in MinKeycodes :
        /\ impl = which
        /\ state = NewState
        /\ hotkeys = IF which = "key" THEN KeyTable(split, reset, toggle)
                                      ELSE MainTable(split, reset)
        /\ toggle_hotkey = IF which = "key" THEN <<>> ELSE MainToggle(toggle)
        /\ hotkeys_enabled = enabled
        /\ min_keycode = minkc
        /\ result = IF which = "key" THEN DefaultResult ELSE <<>>
        /\ last = NoCall(NewState, enabled)
        /\ chord = enabled
        /\ panicked = FALSE

\* listen: `unbounded()` and one task::spawn per device, the loop not entered.
InitListen ==
    /\ reader = [d \in Devices |-> "spawned"]
    /\ read_log = [d \in Devices |-> <<>>]
    /\ sent_log = [d \in Devices |-> <<>>]
    /\ channel = <<>>
    /\ fed_log = <<>>
    /\ pc = "recv"
    /\ cursor = [act |-> 1, phase |-> 1, k |-> 1]
    /\ xevents = <<>>
    /\ error = "none"

\* No call of the resolver is modelled in a run of the engine or the listener.
ResolverIdle ==
    /\ input = [op |-> "none"]
    /\ output = <<>>

\* The engine alone, called directly: the listener's variables stay put.
Init ==
    /\ InitEngine("key") \/ InitEngine("main")
    /\ InitListen
    /\ focused = FALSE
    /\ ResolverIdle

-----------------------------------------------------------------------------
(* The calls of handle_key *)

\* What a call that returned leaves in the engine, and the history of it.
Returned(r, key, is_pressed) ==
    /\ state' = r.state
    /\ hotkeys_enabled' = r.enabled
    /\ result' = r.result
    /\ last' = [called |-> TRUE, key |-> key, is_pressed |-> is_pressed,
                state |-> state, enabled |-> hotkeys_enabled]
    /\ chord' = (chord /\ is_pressed /\ ~state[key])
    /\ UNCHANGED <<impl, hotkeys, toggle_hotkey, min_keycode, panicked>>

Panicked ==
    /\ panicked' = TRUE
    /\ UNCHANGED <<impl, state, hotkeys, toggle_hotkey, hotkeys_enabled,
                   min_keycode, result, last, chord>>

\* key.rs: a caller passes one transition to KeyState::handle_key.
KeyHandleKey(key, is_pressed) ==
    /\ impl = "key"
    /\ ~panicked
    /\ LET r == key_handle_key(state, hotkeys, hotkeys_enabled, key, is_pressed)
       IN  IF r.panicked THEN Panicked ELSE Returned(r, key, is_pressed)
    /\ UNCHANGED <<listen_vars, resolver_vars>>

\* main.rs: KeyState::handle_key on one transition.
MainHandleKey(key, is_pressed) ==
    /\ impl = "main"
    /\ ~panicked
    /\ LET r == main_handle_key(state, hotkeys, toggle_hotkey, hotkeys_enabled,
                                min_keycode, key, is_pressed)
       IN  IF r.panicked THEN Panicked ELSE Returned(r, key, is_pressed)
    /\ UNCHANGED <<listen_vars, resolver_vars>>

Next ==
    \E key \in KeyCodes, is_pressed \in BOOLEAN :
        \/ KeyHandleKey(key, is_pressed)
        \/ MainHandleKey(key, is_pressed)

Spec == Init /\ [][Next]_vars

-----------------------------------------------------------------------------
(* main.rs: HotkeyListener::listen_keyboard, one task per device *)

\* EV["KEY"]
ev_key == 1

\* The input_event records a device produces here: the release, the press
\* and the autorepeat of key 0, a record of another type (EV_SYN), and the
\* press of the key with the largest code.
Records ==
    {[type |-> ev_key, code |-> 0, value |-> v] : v \in {0, 1, 2}}
        \cup {[type |-> 0, code |-> 0, value |-> 0]}
        \cup {[type |-> ev_key, code |-> MaxKeyCode, value |-> 1]}

\* Mutant: `value <= 2`, the autorepeat passes.
forwards_repeat(rec) == rec.type = ev_key /\ rec.value <= 2

\* if type_ == ev_key && value < 2
forwards(rec) == rec.type = ev_key /\ rec.value < 2

\* (raw_code, value != 0), with the history of where it comes from: the
\* device, and the place of the record among those the device produced.
transition(rec, d, n) ==
    [code |-> rec.code, is_pressed |-> rec.value # 0, dev |-> d, seq |-> n,
     rec |-> rec]

\* The process runs: no panic, and listen has not returned.
Alive == ~panicked /\ pc # "exited"

TotalRead == Len(read_log["kbd0"]) + Len(read_log["kbd1"])

\* File::open(path).await succeeds.
ReaderOpen(d) ==
    /\ Alive
    /\ reader[d] = "spawned"
    /\ reader' = [reader EXCEPT ![d] = "reading"]
    /\ UNCHANGED <<engine_vars, read_log, sent_log, channel, fed_log, pc,
                   cursor, focused, xevents, error, resolver_vars>>

\* File::open(path).await? or file.read_exact(..).await? returns the error:
\* the task ends, its JoinHandle was dropped at the spawn.
ReaderFail(d) ==
    /\ Alive
    /\ reader[d] \in {"spawned", "reading"}
    /\ reader' = [reader EXCEPT ![d] = "failed"]
    /\ UNCHANGED <<engine_vars, read_log, sent_log, channel, fed_log, pc,
                   cursor, focused, xevents, error, resolver_vars>>

\* One turn of the loop: read_exact one record, and send its transition when
\* the test lets it through.  The channel is unbounded: send does not wait.
ReaderRead(d, rec) ==
    /\ Alive
    /\ reader[d] = "reading"
    /\ TotalRead < MaxRecords
    /\ read_log' = [read_log EXCEPT ![d] = Append(@, rec)]
    /\ IF forwards(rec)
       THEN LET t == transition(rec, d, Len(read_log[d]) + 1)
            IN  /\ channel' = Append(channel, t)
                /\ sent_log' = [sent_log EXCEPT ![d] = Append(@, t)]
       ELSE UNCHANGED <<channel, sent_log>>
    /\ UNCHANGED <<engine_vars, reader, fed_log, pc, cursor, focused, xevents,
                   error, resolver_vars>>

-----------------------------------------------------------------------------
(* main.rs: HotkeyListener::listen, the loop *)

\* Mutant: the sequence without its first release phase.
EVENT_SEQUENCE_press_first ==
    << [type |-> "press",   do_sleep |-> TRUE],
       [type |-> "release", do_sleep |-> FALSE] >>

EVENT_SEQUENCE ==
    << [type |-> "release", do_sleep |-> TRUE],
       [type |-> "press",   do_sleep |-> TRUE],
       [type |-> "release", do_sleep |-> FALSE] >>

\* Mutant: the receiver takes the newest transition of the channel.
recv_index_newest(ch) == Len(ch)

\* receiver.recv(): the channel is a queue, the oldest transition comes out.
recv_index(ch) == 1

RemoveAt(seq, i) == SubSeq(seq, 1, i - 1) \o SubSeq(seq, i + 1, Len(seq))

FirstCursor == [act |-> 1, phase |-> 1, k |-> 1]

\* let (code, is_pressed) = receiver.recv().await?;
\* let active_hotkeys = self.key_state.handle_key(code, is_pressed);
ListenRecv ==
    /\ Alive
    /\ pc = "recv"
    /\ channel # <<>>
    /\ LET i == recv_index(channel)
           t == channel[i]
           r == main_handle_key(state, hotkeys, toggle_hotkey, hotkeys_enabled,
                                min_keycode, t.code, t.is_pressed)
       IN  /\ channel' = RemoveAt(channel, i)
           /\ fed_log' = Append(fed_log, t)
           /\ IF r.panicked
              THEN Panicked /\ UNCHANGED pc
              ELSE /\ Returned(r, t.code, t.is_pressed)
                   /\ pc' = IF r.result = <<>> THEN "recv" ELSE "focus"
    /\ cursor' = FirstCursor
    /\ xevents' = <<>>
    /\ UNCHANGED <<reader, read_log, sent_log, focused, error, resolver_vars>>

\* if !active_hotkeys.is_empty() { get_input_focus()?.reply()?.focus ..
\*     if focused_window == window { continue; } }
ListenFocus ==
    /\ Alive
    /\ pc = "focus"
    /\ pc' = IF focused THEN "recv" ELSE "send"
    /\ UNCHANGED <<engine_vars, reader, read_log, sent_log, channel, fed_log,
                   cursor, focused, xevents, error, resolver_vars>>

\* Mutant: the loop goes to its next turn when a call fails.
on_error_next_turn(p) == "recv"

\* What `?` does with the Err of a call of the loop: listen returns it.
on_error(p) == "exited"

\* get_input_focus()? or send_event(..)?.check()? returns the error, and
\* listen returns it to main.
ListenTransportError ==
    /\ Alive
    /\ pc \in {"focus", "send"}
    /\ error' = pc
    /\ pc' = on_error(pc)
    /\ UNCHANGED <<engine_vars, reader, read_log, sent_log, channel, fed_log,
                   cursor, focused, xevents, resolver_vars>>

\* Mutant: the loop takes its next turn after the first phase.
AfterPhase_recv_early(c) == [pc |-> "recv", cursor |-> FirstCursor]

\* What follows the last key of a phase, the sleep over: the next phase, the
\* next entry of active_hotkeys, or the next turn of the loop.
AfterPhase(c) ==
    IF c.phase < Len(EVENT_SEQUENCE)
    THEN [pc |-> "send", cursor |-> [act |-> c.act, phase |-> c.phase + 1, k |-> 1]]
    ELSE IF c.act < Len(result)
    THEN [pc |-> "send", cursor |-> [act |-> c.act + 1, phase |-> 1, k |-> 1]]
    ELSE [pc |-> "recv", cursor |-> FirstCursor]

\* self.conn.send_event(true, window, mask, event_to_send)?.check()?
\* for the key the loops stand at; after the last key of a phase,
\* `if do_sleep` decides between the sleep and what follows.
ListenSendEvent ==
    /\ Alive
    /\ pc = "send"
    /\ LET keys == result[cursor.act]
           ev   == [type |-> EVENT_SEQUENCE[cursor.phase].type,
                    detail |-> keys[cursor.k], act |-> cursor.act]
       IN  /\ xevents' = Append(xevents, ev)
           /\ IF cursor.k < Len(keys)
              THEN /\ cursor' = [cursor EXCEPT !.k = cursor.k + 1]
                   /\ UNCHANGED pc
              ELSE IF EVENT_SEQUENCE[cursor.phase].do_sleep
              THEN /\ pc' = "sleep"
                   /\ UNCHANGED cursor
              ELSE /\ pc' = AfterPhase(cursor).pc
                   /\ cursor' = AfterPhase(cursor).cursor
    /\ UNCHANGED <<engine_vars, reader, read_log, sent_log, channel, fed_log,
                   focused, error, resolver_vars>>

\* task::sleep(key_delay).await is over.
ListenWake ==
    /\ Alive
    /\ pc = "sleep"
    /\ pc' = AfterPhase(cursor).pc
    /\ cursor' = AfterPhase(cursor).cursor
    /\ UNCHANGED <<engine_vars, reader, read_log, sent_log, channel, fed_log,
                   focused, xevents, error, resolver_vars>>

\* The X server: the input focus moves to the LiveSplit window or away.
FocusChange ==
    /\ Alive
    /\ focused' = ~focused
    /\ UNCHANGED <<engine_vars, reader, read_log, sent_log, channel, fed_log,
                   pc, cursor, xevents, error, resolver_vars>>

\* The tables of the listener's runs, as (SplitKey, ResetKey,
\* ToggleGlobalHotkeys) elements of the settings.
ListenSettings == { << <<0>>, <<0>>, <<>> >>, << <<0>>, <<>>, <<0>> >> }

InitListener ==
    /\ InitEngine("main")
    /\ <<IF hotkeys = <<>> THEN <<>> ELSE hotkeys[1],
         IF Len(hotkeys) < 2 THEN <<>> ELSE hotkeys[2],
         IF toggle_hotkey = <<>> THEN <<>> ELSE toggle_hotkey[1]>>
          \in ListenSettings
    /\ hotkeys_enabled
    /\ InitListen
    /\ focused \in BOOLEAN
    /\ ResolverIdle

NextListen ==
    \/ \E d \in Devices : ReaderOpen(d)
    \/ \E d \in Devices : ReaderFail(d)
    \/ \E d \in Devices, rec \in Records : ReaderRead(d, rec)
    \/ ListenRecv
    \/ ListenFocus
    \/ ListenTransportError
    \/ ListenSendEvent
    \/ ListenWake
    \/ FocusChange

SpecListen == InitListener /\ [][NextListen]_vars

-----------------------------------------------------------------------------
(* What the properties speak of *)

\* The codes PressState reads true.
Held(st) == {c \in DOMAIN st : st[c]}

\* The activation rule as the specification words it: the code is a member
\* of the combo and every member reads true in PressState.
RuleActive(combo, key, st) ==
    key \in Range(combo) /\ Range(combo) \subseteq Held(st)

CountIn(seq, x) == Cardinality({i \in DOMAIN seq : seq[i] = x})

NonToggleKinds == HotkeyKinds \ {"ToggleGlobalHotkeys"}

\* The toggle combo of the running revision, <<>> when none is configured.
ToggleCombo ==
    IF impl = "key" THEN hotkeys["ToggleGlobalHotkeys"]
    ELSE IF toggle_hotkey = <<>> THEN <<>> ELSE toggle_hotkey[1]

\* Every combo the table holds, the toggle combo included.
ConfiguredCombos ==
    IF impl = "key" THEN {hotkeys[h] : h \in HotkeyKinds}
    ELSE Range(hotkeys) \cup Range(toggle_hotkey)

\* The last call returned with the engine Enabled before it and after it.
StayedEnabled == last.called /\ last.enabled /\ hotkeys_enabled

\* main.rs: how many entries of the returned list are this combo's keycodes.
MainFired(combo) == CountIn(result, Keycodes(combo, min_keycode))

-----------------------------------------------------------------------------
\* C1: in both revisions check_hotkey(code, combo) is true exactly when the
\* code is a member of the combo and every member reads true in PressState
\* (the PressState the transition's own update has left), for every
\* configured combo, every key code and every PressState the engine reaches;
\* so a code that is no member never activates a combo whose members are all
\* held.
C1_ActivationRule ==
    \A key \in KeyCodes : \A combo \in ConfiguredCombos :
        ~CheckPanics(state, key, combo) =>
            /\ impl = "key" =>
                 (key_check_hotkey(state, key, combo)
                    <=> RuleActive(combo, key, state))
            /\ impl = "main" =>
                 (main_check_hotkey(state, key, combo)
                    <=> RuleActive(combo, key, state))

\* C1 witness: a returned transition for a code that is no member of a
\* combo whose members are all held, and nothing was activated.
C1_Witness ==
    /\ last.called /\ last.enabled /\ hotkeys_enabled
    /\ \E combo \in ConfiguredCombos :
          /\ combo # <<>>
          /\ Range(combo) \subseteq Held(state)
          /\ last.key \notin Range(combo)
    /\ result = IF impl = "key" THEN DefaultResult ELSE <<>>

\* C2: after every handle_key(code, is_pressed) that returns, PressState[code]
\* is is_pressed and every other entry is as it was before the call, Enabled
\* or Disabled, whether or not a combo holds the code.
C2_PressStateUpdate ==
    last.called =>
        /\ DOMAIN state = DOMAIN last.state
        /\ \A c \in DOMAIN state :
              state[c] = IF c = last.key THEN last.is_pressed ELSE last.state[c]

\* C2 witness: while Disabled, the release of a held code that no combo
\* holds, with another code held.
C2_Witness ==
    /\ last.called /\ ~last.enabled
    /\ \A combo \in ConfiguredCombos : last.key \notin Range(combo)
    /\ last.state[last.key] /\ ~last.is_pressed /\ ~state[last.key]
    /\ Held(state) # {}

\* C3: a transition after whose toggle evaluation the engine is Disabled
\* activates no non-toggle combo: key.rs reports every non-toggle kind
\* inactive, and main.rs returns nothing but the toggle's own entry, and that
\* only when this transition toggled Enabled to Disabled.
C3_DisabledSuppresses ==
    (last.called /\ ~hotkeys_enabled) =>
        /\ impl = "key" => \A h \in NonToggleKinds : ~result[h]
        /\ impl = "main" =>
              result = IF last.enabled
                       THEN <<Keycodes(ToggleCombo, min_keycode)>>
                       ELSE <<>>

\* C3 witness: a transition that toggled Enabled to Disabled while a
\* non-toggle combo satisfied the activation rule.
C3_Witness ==
    /\ last.called /\ last.enabled /\ ~hotkeys_enabled
    /\ impl = "main"
    /\ \E i \in DOMAIN hotkeys : RuleActive(hotkeys[i], last.key, state)

\* C4: the Enabled bit after a transition differs from the bit before it
\* exactly when the toggle combo is active on the transition by the
\* activation rule, whatever the bit was; with no toggle combo configured it
\* never changes.
C4_ToggleFlips ==
    last.called =>
        ((hotkeys_enabled # last.enabled)
            <=> RuleActive(ToggleCombo, last.key, state))

\* C4 witness: the toggle combo fired while the engine was Disabled, on a
\* transition on which another combo was active as well.
C4_Witness ==
    /\ last.called /\ ~last.enabled /\ hotkeys_enabled
    /\ RuleActive(ToggleCombo, last.key, state)
    /\ \E combo \in ConfiguredCombos \ {ToggleCombo} :
          RuleActive(combo, last.key, state)

\* C5 (as claimed): in key.rs, on a transition that toggles Disabled to
\* Enabled, every non-toggle kind whose combo is active by the activation
\* rule is reported active in the result of that call.
C5_ToggleOnContinues ==
    (impl = "key" /\ last.called /\ ~last.enabled /\ hotkeys_enabled) =>
        \A h \in NonToggleKinds :
            RuleActive(hotkeys[h], last.key, state) => result[h]

\* The configured combos other than the toggle combo.
NonToggleCombos ==
    IF impl = "key" THEN {hotkeys[h] : h \in NonToggleKinds} \ {<<>>}
    ELSE Range(hotkeys)

\* How many times the table holds the combo.
Instances(combo) ==
    IF impl = "key" THEN Cardinality({h \in HotkeyKinds : hotkeys[h] = combo})
    ELSE CountIn(hotkeys, combo) + CountIn(toggle_hotkey, combo)

\* How many activations of the combo the last call returned.
Activations(combo) ==
    IF impl = "key"
    THEN Cardinality({h \in HotkeyKinds : hotkeys[h] = combo /\ result[h]})
    ELSE MainFired(combo)

\* C6 (as claimed): while Enabled, a transition for one member of a two-key
\* combo {a, b}, press or release, activates the combo exactly when the other
\* member is held immediately before it; a transition for another code never
\* activates it.
C6_TwoKeyEitherDirection ==
    StayedEnabled =>
        \A combo \in NonToggleCombos :
            (Len(combo) = 2 /\ combo[1] # combo[2]) =>
                LET a == combo[1]
                    b == combo[2]
                IN  /\ last.key = a =>
                         (Activations(combo) > 0 <=> b \in Held(last.state))
                    /\ last.key = b =>
                         (Activations(combo) > 0 <=> a \in Held(last.state))
                    /\ last.key \notin {a, b} => Activations(combo) = 0

\* C6 (amended): while Enabled (before the transition and after its toggle
\* evaluation), a press of one member of a two-key combo {a, b} activates the
\* combo exactly when the other member is held immediately before it, a
\* release of a member never activates it, and a transition for another code
\* never activates it.
C6_TwoKeyPress ==
    StayedEnabled =>
        \A combo \in NonToggleCombos :
            (Len(combo) = 2 /\ combo[1] # combo[2]) =>
                LET a == combo[1]
                    b == combo[2]
                IN  /\ last.key = a =>
                         (Activations(combo) > 0
                            <=> (last.is_pressed /\ b \in Held(last.state)))
                    /\ last.key = b =>
                         (Activations(combo) > 0
                            <=> (last.is_pressed /\ a \in Held(last.state)))
                    /\ last.key \notin {a, b} => Activations(combo) = 0

\* C6 witness: the press of the first member of a two-key combo with the
\* second member held before it activated the combo.
C6_Witness ==
    /\ StayedEnabled
    /\ \E combo \in NonToggleCombos :
          /\ Len(combo) = 2 /\ combo[1] # combo[2]
          /\ last.key = combo[1] /\ last.is_pressed
          /\ ~last.state[combo[1]]
          /\ combo[2] \in Held(last.state)
          /\ Activations(combo) = 1

\* The table of the end-to-end scenario: Split = "G", Reset = "R, Shift",
\* nothing else (0 plays G, 1 R, 2 Shift).
ScenarioTable ==
    /\ ToggleCombo = <<>>
    /\ IF impl = "key"
       THEN hotkeys = KeyTable(<<0>>, <<1, 2>>, <<>>)
       ELSE hotkeys = <<<<0>>, <<1, 2>>>>

\* The result that holds one activation, of the scenario's Split or Reset.
OnlySplit ==
    IF impl = "key" THEN result = [DefaultResult EXCEPT !["SplitKey"] = TRUE]
    ELSE result = <<Keycodes(<<0>>, min_keycode)>>

OnlyReset ==
    IF impl = "key" THEN result = [DefaultResult EXCEPT !["ResetKey"] = TRUE]
    ELSE result = <<Keycodes(<<1, 2>>, min_keycode)>>

NoActivation == result = IF impl = "key" THEN DefaultResult ELSE <<>>

\* C7 (as claimed): from Enabled with every key released, the presses of a
\* combo's members, one at a time and nothing else, activate the combo on no
\* press before the last member's and exactly once on the last member's
\* press, for every configured combo.
C7_ChordCompletionAny ==
    (chord /\ last.called) =>
        \A combo \in ConfiguredCombos \ {<<>>} :
            Held(state) \subseteq Range(combo) =>
                Activations(combo) =
                    IF Held(state) = Range(combo) THEN Instances(combo) ELSE 0

\* C7 (amended): from Enabled with every key released, the presses of a
\* non-toggle combo's members, one at a time and nothing else, activate the
\* combo on no press before the last member's and exactly once on the last
\* member's press, provided the toggle combo is active on none of these
\* presses.  Instance: with Split = [G] and Reset = [R, Shift], the press of
\* G yields exactly the Split activation, then the press of Shift yields
\* none and the press of R exactly the Reset activation.
C7_ChordCompletion ==
    (chord /\ last.called /\ hotkeys_enabled) =>
        /\ \A combo \in NonToggleCombos :
              Held(state) \subseteq Range(combo) =>
                  Activations(combo) =
                      IF Held(state) = Range(combo) THEN Instances(combo) ELSE 0
        /\ ScenarioTable =>
              /\ Held(state) = {0} => OnlySplit
              /\ (Held(state) = {0, 2} /\ last.key = 2) => NoActivation
              /\ (Held(state) = {0, 1, 2} /\ last.key = 1) => OnlyReset

\* C7 witness: the end of the scenario, G, Shift and R pressed in this order
\* and the press of R has returned the Reset activation alone.
C7_Witness ==
    /\ chord /\ last.called /\ hotkeys_enabled
    /\ ScenarioTable
    /\ Held(state) = {0, 1, 2} /\ last.key = 1 /\ Held(last.state) = {0, 2}
    /\ OnlyReset
    /\ Activations(<<1, 2>>) = 1

\* C8: the engine keeps no latch: while Enabled (before the transition and
\* after its toggle evaluation) every transition that satisfies the
\* activation rule for a non-toggle combo yields the combo's activation, once
\* per place the table holds it, and a transition that does not satisfy the
\* rule yields none; a repeated press of a member that is already recorded as
\* held, with all members held, fires the combo again.
C8_Refire ==
    StayedEnabled =>
        \A combo \in NonToggleCombos :
            Activations(combo) =
                IF RuleActive(combo, last.key, state) THEN Instances(combo) ELSE 0

\* C8 witness: a press of a member of a two-key combo that was already held,
\* with no release between, while all members are held: the combo fired.
C8_Witness ==
    /\ StayedEnabled
    /\ last.is_pressed /\ last.state[last.key]
    /\ \E combo \in NonToggleCombos :
          /\ Len(combo) = 2
          /\ Range(combo) \subseteq Held(last.state)
          /\ last.key \in Range(combo)
          /\ Activations(combo) = 1

-----------------------------------------------------------------------------
(* The listener's properties *)

\* What the channel carries of a transition: (code, is_pressed).
Payload(t) == <<t.code, t.is_pressed>>

Payloads(seq) == [i \in DOMAIN seq |-> Payload(seq[i])]

\* A stream of records with every autorepeat record (value 2) removed.
WithoutRepeats(stream) == SelectSeq(stream, LAMBDA rec : rec.value # 2)

\* What a reader sends for a stream of records, one record after the other.
RECURSIVE SentFor(_)
SentFor(stream) ==
    IF stream = <<>>
    THEN <<>>
    ELSE (IF forwards(Head(stream))
          THEN <<Payload(transition(Head(stream), "kbd0", 1))>>
          ELSE <<>>) \o SentFor(Tail(stream))

\* C9: no transition in the channel or passed to the engine stems from a
\* record of value 2 or from a record whose type is not the key event type,
\* and what a reader has sent for the records it read is what it sends for
\* the same records with every value-2 record removed.
C9_NoAutorepeat ==
    /\ \A i \in DOMAIN channel :
          channel[i].rec.value # 2 /\ channel[i].rec.type = ev_key
    /\ \A i \in DOMAIN fed_log :
          fed_log[i].rec.value # 2 /\ fed_log[i].rec.type = ev_key
    /\ \A d \in Devices :
          Payloads(sent_log[d]) = SentFor(WithoutRepeats(read_log[d]))

\* C9 witness: a device produced the press of key 0 and then its autorepeat;
\* one transition was sent and fed, its activation was delivered, and
\* nothing is left in the channel.
C9_Witness ==
    \E d \in Devices :
        /\ Len(read_log[d]) = 2
        /\ read_log[d][1] = [type |-> ev_key, code |-> 0, value |-> 1]
        /\ read_log[d][2] = [type |-> ev_key, code |-> 0, value |-> 2]
        /\ Len(sent_log[d]) = 1
        /\ Len(fed_log) = 1 /\ channel = <<>>
        /\ pc = "recv" /\ xevents # <<>>

\* The transitions of one device among those passed to handle_key.
FedOf(d) == SelectSeq(fed_log, LAMBDA t : t.dev = d)

IsPrefix(a, b) == Len(a) <= Len(b) /\ a = SubSeq(b, 1, Len(a))

\* C10: the transitions of one device are passed to handle_key in the order
\* the device produced them: at any moment those fed are the first ones the
\* reader sent, in the reader's order, whatever the interleaving with the
\* other device.
C10_PerDeviceOrder ==
    \A d \in Devices :
        /\ IsPrefix(FedOf(d), sent_log[d])
        /\ \A i \in DOMAIN FedOf(d), j \in DOMAIN FedOf(d) :
              i < j => FedOf(d)[i].seq < FedOf(d)[j].seq

\* C10 witness: a press and then a release of one device were fed with a
\* transition of the other device between them.
C10_Witness ==
    /\ Len(fed_log) = 3
    /\ fed_log[1].dev = fed_log[3].dev /\ fed_log[2].dev # fed_log[1].dev
    /\ fed_log[1].is_pressed /\ ~fed_log[3].is_pressed
    /\ fed_log[1].seq < fed_log[3].seq

-----------------------------------------------------------------------------
(* The listener: dispatch, errors, focus *)

\* The events of one phase of one entry of active_hotkeys.
PhaseEvents(keys, a, type) ==
    [k \in 1..Len(keys) |-> [type |-> type, detail |-> keys[k], act |-> a]]

\* The sequence forwarded for one activation: its members released, pressed,
\* released.
ActivationEvents(keys, a) ==
    PhaseEvents(keys, a, "release") \o PhaseEvents(keys, a, "press")
        \o PhaseEvents(keys, a, "release")

\* The sequences of the activations a, a+1, .. of one transition.
RECURSIVE EventsFrom(_, _)
EventsFrom(res, a) ==
    IF a > Len(res) THEN <<>>
    ELSE ActivationEvents(res[a], a) \o EventsFrom(res, a + 1)

\* C11: the engine changes only in the step of the loop that receives a
\* transition; that step takes the oldest transition of the channel, with the
\* loop at its recv and every event of the transition before it sent (or
\* none, the transition skipped), and is one handle_key call on exactly that
\* transition.  Reader steps leave the engine as it is.
C11_SerialDispatch ==
    [][ /\ (engine_vars' # engine_vars) => (fed_log' # fed_log)
        /\ (fed_log' # fed_log) =>
              /\ pc = "recv"
              /\ channel # <<>>
              /\ fed_log' = Append(fed_log, Head(channel))
              /\ channel' = Tail(channel)
              /\ xevents \in {<<>>, EventsFrom(result, 1)}
              /\ \/ panicked'
                 \/ /\ last'.called
                    /\ last'.key = Head(channel).code
                    /\ last'.is_pressed = Head(channel).is_pressed
                    /\ last'.state = state
                    /\ state' = [state EXCEPT ![Head(channel).code] =
                                     Head(channel).is_pressed]
      ]_vars

\* C11 witness: the second transition is being delivered, the loop in a
\* delay between two phases, while a third transition waits in the channel.
C11_Witness ==
    /\ pc = "sleep"
    /\ Len(fed_log) = 2
    /\ channel # <<>>
    /\ fed_log[1].dev # fed_log[2].dev

\* The process has a step of its own left: a reader that runs or may still
\* open its device, a transition to receive, or a delivery under way.
CanProceed ==
    \/ \E d \in Devices : reader[d] \in {"spawned", "reading"}
    \/ channel # <<>>
    \/ pc \in {"focus", "send", "sleep"}

\* C12 (as claimed): once a reader task has ended with an error, listen has
\* returned an error or the process still moves towards that; it never sits
\* in recv with nothing left that could wake it.
C12_DeviceErrorsFatal ==
    ((\E d \in Devices : reader[d] = "failed") /\ ~panicked) =>
        \/ pc = "exited" /\ error # "none"
        \/ CanProceed

\* C13: the step in which a transport call fails is the step in which
\* listen returns, with that call as its error, and once listen has returned
\* nothing follows: no transition leaves the channel, no handle_key call, no
\* event, no record read.
C13_TransportErrorsSurfaced ==
    [][ /\ (error' # error) =>
              /\ error = "none" /\ error' = pc /\ pc \in {"focus", "send"}
              /\ pc' = "exited"
              /\ UNCHANGED <<engine_vars, channel, fed_log, xevents, cursor>>
        /\ (error # "none") =>
              /\ pc = "exited"
              /\ UNCHANGED <<engine_vars, reader, read_log, sent_log, channel,
                             fed_log, pc, cursor, xevents, error>>
      ]_vars

\* C13 witness: a send_event failed in the middle of a sequence; listen has
\* returned with the press phase sent and not released, and a transition is
\* left in the channel.
C13_Witness ==
    /\ error = "send" /\ pc = "exited"
    /\ channel # <<>>
    /\ xevents # <<>> /\ xevents[Len(xevents)].type = "press"

\* The loop is about to send the first event of an entry of active_hotkeys.
BeginsActivation == pc = "send" /\ cursor.phase = 1 /\ cursor.k = 1

\* C14 (as claimed), in the case the claim names, an activation that follows
\* the delays of an earlier activation of the same transition: when the loop
\* begins to send its events the LiveSplit window does not have the focus.
C14_FocusSuppression ==
    (BeginsActivation /\ cursor.act > 1) => ~focused

-----------------------------------------------------------------------------
(* key.rs and main.rs: Keymapper *)

\* A name or a combo text is the sequence of its characters.
N_G == <<"G">>
N_g == <<"g">>
N_R == <<"R">>
N_Alt == <<"A", "l", "t">>
N_alt == <<"a", "l", "t">>
N_Shift == <<"S", "h", "i", "f", "t">>
N_Control == <<"C", "o", "n", "t", "r", "o", "l">>
N_NumPad6 == <<"N", "u", "m", "P", "a", "d", "6">>
N_LEFTALT == <<"L", "E", "F", "T", "A", "L", "T">>
N_LEFTCTRL == <<"L", "E", "F", "T", "C", "T", "R", "L">>
N_LEFTSHIFT == <<"L", "E", "F", "T", "S", "H", "I", "F", "T">>
N_KP6 == <<"K", "P", "6">>
N_Foo == <<"F", "o", "o">>

LowerCase == <<"a", "b", "c", "d", "e", "f", "g", "h", "i", "j", "k", "l", "m", "n", "o", "p", "q", "r", "s", "t", "u", "v", "w", "x", "y", "z">>

UpperCase == <<"A", "B", "C", "D", "E", "F", "G", "H", "I", "J", "K", "L", "M", "N", "O", "P", "Q", "R", "S", "T", "U", "V", "W", "X", "Y", "Z">>

\* char::to_uppercase, on the ASCII letters; any other character is its own
\* upper case.
upper_char(c) ==
    IF \E i \in DOMAIN LowerCase : LowerCase[i] = c
    THEN UpperCase[CHOOSE i \in DOMAIN LowerCase : LowerCase[i] = c]
    ELSE c

\* str::to_uppercase
to_uppercase(s) == [i \in DOMAIN s |-> upper_char(s[i])]

\* input_event_codes_hashmap::KEY, the entries these names reach, with the
\* codes of linux/input-event-codes.h.
KEY ==
    (N_G :> 34) @@ (N_R :> 19) @@ (N_LEFTCTRL :> 29) @@ (N_LEFTSHIFT :> 42)
        @@ (N_LEFTALT :> 56) @@ (N_KP6 :> 77)

\* KEY.get(name).copied(): <<>> for None, <<code>> for Some(code).
KEY_get(name) == IF name \in DOMAIN KEY THEN <<KEY[name]>> ELSE <<>>

\* key.rs: the key_map of Keymapper::new, the entries these names reach.
key_Keymapper_key_map ==
    (N_Control :> N_LEFTCTRL) @@ (N_Alt :> N_LEFTALT)
        @@ (N_Shift :> N_LEFTSHIFT) @@ (N_NumPad6 :> N_KP6)

\* main.rs: the key_map of Keymapper::new, the same entries.
main_Keymapper_key_map ==
    (N_Control :> N_LEFTCTRL) @@ (N_Alt :> N_LEFTALT)
        @@ (N_Shift :> N_LEFTSHIFT) @@ (N_NumPad6 :> N_KP6)

\* Mutant: the name is looked up as it is written, not upper-cased.
key_Keymapper_map_exact(name) ==
    IF name \in DOMAIN key_Keymapper_key_map
    THEN KEY_get(key_Keymapper_key_map[name])
    ELSE KEY_get(name)

\* key.rs: Keymapper::map
key_Keymapper_map(name) ==
    IF name \in DOMAIN key_Keymapper_key_map
    THEN KEY_get(key_Keymapper_key_map[name])
    ELSE LET uc_name == to_uppercase(name)
         IN  KEY_get(uc_name)

\* main.rs: Keymapper::map
main_Keymapper_map(name) ==
    IF name \in DOMAIN main_Keymapper_key_map
    THEN KEY_get(main_Keymapper_key_map[name])
    ELSE LET uc_name == to_uppercase(name)
         IN  KEY_get(uc_name)

\* str::split(','): the pieces between the separators, one piece for a text
\* without separator, the empty text included.
RECURSIVE split(_, _)
split(s, sep) ==
    IF \A i \in DOMAIN s : s[i] # sep
    THEN <<s>>
    ELSE LET i == CHOOSE i \in DOMAIN s :
                      s[i] = sep /\ \A j \in 1..(i - 1) : s[j] # sep
         IN  <<SubSeq(s, 1, i - 1)>> \o split(SubSeq(s, i + 1, Len(s)), sep)

\* The white space a text holds here: the space and the tab.
WhiteSpace == {" ", "\t"}

\* str::trim: the text from its first to its last character that is not
\* white space.
trim(s) ==
    LET inked == {i \in DOMAIN s : s[i] \notin WhiteSpace}
    IN  IF inked = {} THEN <<>>
        ELSE SubSeq(s, CHOOSE i \in inked : \A j \in inked : i <= j,
                       CHOOSE i \in inked : \A j \in inked : i >= j)

\* Mutant: an unresolved token is left out, the others are returned.
RECURSIVE key_map_combo_skipping(_, _, _)
key_map_combo_skipping(tokens, i, vec) ==
    IF i > Len(tokens) THEN [ok |-> TRUE, vec |-> vec]
    ELSE LET code == key_Keymapper_map(trim(tokens[i]))
         IN  key_map_combo_skipping(tokens, i + 1,
                                    IF code # <<>> THEN Append(vec, code[1])
                                                   ELSE vec)

key_Keymapper_map_combo_partial(combo) ==
    key_map_combo_skipping(split(combo, ","), 1, <<>>)

\* key.rs: the loop of map_combo from its i-th token on, vec what it has
\* pushed: Ok(vec) after the last token, Err on the first token that map does
\* not resolve, with the trimmed token and the whole text in its message.
RECURSIVE key_map_combo_loop(_, _, _, _)
key_map_combo_loop(tokens, i, vec, combo) ==
    IF i > Len(tokens) THEN [ok |-> TRUE, vec |-> vec]
    ELSE LET key  == trim(tokens[i])
             code == key_Keymapper_map(key)
         IN  IF code # <<>>
             THEN key_map_combo_loop(tokens, i + 1, Append(vec, code[1]), combo)
             ELSE [ok |-> FALSE, key |-> key, combo |-> combo]

\* key.rs: Keymapper::map_combo
key_Keymapper_map_combo(combo) ==
    key_map_combo_loop(split(combo, ","), 1, <<>>, combo)

\* The names map is called with: in the key_map, in KEY as written, in KEY
\* once upper-cased, in neither, a key_map name in another case, the empty
\* name, a name with a space before it.
Names ==
    {N_G, N_g, N_R, N_Alt, N_alt, N_Shift, N_Control, N_NumPad6, N_LEFTALT,
     N_Foo, <<>>, <<" ">> \o N_G}

\* The tokens of the combo texts.
Tokens == {N_G, N_R, N_Shift, N_Alt, N_Control, N_Foo, <<>>}

\* The most tokens a combo text has.
MaxTokens == 3

TokenLists == UNION {[1..n -> Tokens] : n \in 1..MaxTokens}

\* What stands before and after a token between two commas.
Pads == {<<>>, <<" ">>}

\* The text with these tokens, commas between them: `lead` after each comma,
\* `trail` after each token.
RECURSIVE Join(_, _, _)
Join(tokens, lead, trail) ==
    IF Len(tokens) = 1 THEN tokens[1] \o trail
    ELSE tokens[1] \o trail \o <<",">> \o lead \o Join(Tail(tokens), lead, trail)

ResolverInputs ==
    {[op |-> "map", name |-> n] : n \in Names}
        \cup {[op |-> "map_combo", tokens |-> toks,
               text |-> head \o Join(toks, lead, trail)] :
                 toks \in TokenLists, head \in Pads, lead \in Pads, trail \in Pads}

\* One call of the resolver on one input; no engine is built, no listener
\* runs.
InitResolve ==
    /\ InitEngine("key")
    /\ hotkeys = KeyTable(<<>>, <<>>, <<>>)
    /\ hotkeys_enabled
    /\ InitListen
    /\ focused = FALSE
    /\ input \in ResolverInputs
    /\ output = <<>>

\* key.rs: mapper.map(name)
KeyMap ==
    /\ input.op = "map"
    /\ "key" \notin DOMAIN output
    /\ output' = output @@ ("key" :> key_Keymapper_map(input.name))
    /\ UNCHANGED <<engine_vars, listen_vars, input>>

\* main.rs: mapper.map(name)
MainMap ==
    /\ input.op = "map"
    /\ "main" \notin DOMAIN output
    /\ output' = output @@ ("main" :> main_Keymapper_map(input.name))
    /\ UNCHANGED <<engine_vars, listen_vars, input>>

\* key.rs: mapper.map_combo(text)
KeyMapCombo ==
    /\ input.op = "map_combo"
    /\ "combo" \notin DOMAIN output
    /\ output' = output @@ ("combo" :> key_Keymapper_map_combo(input.text))
    /\ UNCHANGED <<engine_vars, listen_vars, input>>

NextResolve ==
    \/ KeyMap
    \/ MainMap
    \/ KeyMapCombo

SpecResolve == InitResolve /\ [][NextResolve]_vars

\* C15: map(name) is the code of the key_map target when the name is a
\* key_map key as written, the code of the upper-cased name otherwise, and
\* None when KEY has no such name; so map("G") = KEY["G"],
\* map("Alt") = KEY["LEFTALT"], map("NumPad6") = KEY["KP6"]; the copies of
\* key.rs and main.rs agree.
C15_TwoTierLookup ==
    input.op = "map" =>
        LET name   == input.name
            alias  == key_Keymapper_key_map
            looked == IF name \in DOMAIN alias THEN alias[name]
                      ELSE [i \in DOMAIN name |-> upper_char(name[i])]
            expect == IF looked \in DOMAIN KEY THEN <<KEY[looked]>> ELSE <<>>
        IN  /\ \A c \in DOMAIN output : output[c] = expect
            /\ \A c \in DOMAIN output :
                  /\ name = N_G => output[c] = <<KEY[N_G]>>
                  /\ name = N_g => output[c] = <<KEY[N_G]>>
                  /\ name = N_Alt => output[c] = <<KEY[N_LEFTALT]>>
                  /\ name = N_NumPad6 => output[c] = <<KEY[N_KP6]>>
                  /\ name \in {N_alt, N_Foo, <<>>} => output[c] = <<>>

\* C15 witness: both copies have resolved "g", a name that only the
\* upper-casing finds.
C15_Witness ==
    /\ input.op = "map" /\ input.name = N_g
    /\ DOMAIN output = {"key", "main"}
    /\ output["key"] = <<KEY[N_G]>> /\ output["main"] = <<KEY[N_G]>>

\* The least element of a non-empty set of numbers.
Least(S) == CHOOSE i \in S : \A j \in S : i <= j

\* C16: for the text made of given tokens between commas and white space,
\* map_combo returns the codes of the tokens, as many and in their order,
\* when map resolves them all, and otherwise an error that names the first
\* token map does not resolve (the empty one included) and the text, and
\* carries no codes.
C16_ComboAllOrError ==
    (input.op = "map_combo" /\ "combo" \in DOMAIN output) =>
        LET toks == input.tokens
            out  == output["combo"]
            bad  == {i \in DOMAIN toks : key_Keymapper_map(toks[i]) = <<>>}
        IN  /\ IF bad = {}
               THEN /\ out.ok
                    /\ Len(out.vec) = Len(toks)
                    /\ \A i \in DOMAIN toks :
                          <<out.vec[i]>> = key_Keymapper_map(toks[i])
               ELSE /\ ~out.ok
                    /\ DOMAIN out = {"ok", "key", "combo"}
                    /\ out.key = toks[Least(bad)]
                    /\ out.combo = input.text
            /\ toks = <<N_G, N_Control>> =>
                  out.ok /\ out.vec = <<KEY[N_G], KEY[N_LEFTCTRL]>>
            /\ toks = <<N_R, N_Shift, N_Alt>> =>
                  out.ok /\ out.vec = <<KEY[N_R], KEY[N_LEFTSHIFT], KEY[N_LEFTALT]>>
            /\ toks = <<N_Shift, <<>>, N_Alt>> => ~out.ok /\ out.key = <<>>
            /\ input.text = <<>> => ~out.ok /\ out.key = <<>>

\* C16 witness: "Shift, , Alt" has failed on its empty token, after a token
\* that resolves.
C16_Witness ==
    /\ input.op = "map_combo"
    /\ input.text = N_Shift \o <<",", " ", ",", " ">> \o N_Alt
    /\ "combo" \in DOMAIN output
    /\ ~output["combo"].ok /\ output["combo"].key = <<>>

-----------------------------------------------------------------------------
(* PressState: its size, its codes, what it reflects *)

\* C17 (as claimed): with combos made of codes of the KEY table and
\* handle_key called with codes of the KEY table, 0 to the largest included,
\* no call ends on an index outside PressState.
C17_EveryCodeIndexed == ~panicked

\* C18 (as claimed): no transition a reader has put in the channel, and none
\* the loop has passed to handle_key, carries a code that is not an index of
\* PressState, and no handle_key call of the loop ends on such an index.
C18_DecodeRejectsOutOfRange ==
    /\ \A i \in DOMAIN channel : channel[i].code \in DOMAIN state
    /\ \A i \in DOMAIN fed_log : fed_log[i].code \in DOMAIN state
    /\ ~panicked

\* The key records of code c among those a device has produced.
KeyRecords(d, c) ==
    SelectSeq(read_log[d], LAMBDA r : r.type = ev_key /\ r.code = c)

\* The records are those of a key that was up when the reader started: a
\* press only of a key that is up, a release or an autorepeat only of a key
\* that is down.
Physical(d, c) ==
    LET k == KeyRecords(d, c)
    IN  \A i \in DOMAIN k :
            IF k[i].value = 1 THEN i = 1 \/ k[i - 1].value = 0
                              ELSE i > 1 /\ k[i - 1].value # 0

\* Key c is down on the device: its last record is not a release.
HeldOn(d, c) ==
    LET k == KeyRecords(d, c)
    IN  k # <<>> /\ k[Len(k)].value # 0

\* C19 (as claimed): with every device being read and its records those of
\* real keys, whenever the channel is empty and the loop waits in recv,
\* PressState[c] is true exactly when c is down on some device.
C19_ReflectsHeld ==
    ( /\ channel = <<>> /\ pc = "recv" /\ ~panicked
      /\ \A d \in Devices : reader[d] = "reading"
      /\ \A d \in Devices, c \in KeyCodes : Physical(d, c) )
        => \A c \in DOMAIN state : state[c] <=> \E d \in Devices : HeldOn(d, c)

-----------------------------------------------------------------------------
(* The listener with a combo of two keys *)

\* The records of these runs: the presses of keys 1 and 2, the release of 2.
InjectRecords ==
    {[type |-> ev_key, code |-> c, value |-> 1] : c \in {1, 2}}
        \cup {[type |-> ev_key, code |-> 2, value |-> 0]}

\* SplitKey is the combo <<1, 2>> and ResetKey the combo <<2>>: the press of
\* 2 with 1 held activates both.
InitInject ==
    /\ InitEngine("main")
    /\ hotkeys = <<<<1, 2>>, <<2>>>>
    /\ toggle_hotkey = <<>>
    /\ hotkeys_enabled
    /\ InitListen
    /\ focused \in BOOLEAN
    /\ ResolverIdle

NextInject ==
    \/ \E d \in Devices : ReaderOpen(d)
    \/ \E d \in Devices : ReaderFail(d)
    \/ \E d \in Devices, rec \in InjectRecords : ReaderRead(d, rec)
    \/ ListenRecv
    \/ ListenFocus
    \/ ListenTransportError
    \/ ListenSendEvent
    \/ ListenWake
    \/ FocusChange

SpecInject == InitInject /\ [][NextInject]_vars

\* The events sent for the a-th activation of the transition.
SentOf(a) == SelectSeq(xevents, LAMBDA e : e.act = a)

\* The events of an activation with n members stand at the end of its first
\* or of its second phase.
AtPhaseEnd(a) ==
    a \in DOMAIN result /\ Len(SentOf(a)) \in {Len(result[a]), 2 * Len(result[a])}

\* What holds of the events sent since the last recv: they are the first
\* events of the sequences of the activations, in order; the loop sleeps only
\* at the end of a first or second phase; back in recv after sending, every
\* sequence is complete, 3n events for n members, and for each member the
\* first event is a release, one event is a press, the last is a release.
SequencesSent ==
    /\ IsPrefix(xevents, EventsFrom(result, 1))
    /\ pc = "sleep" => AtPhaseEnd(cursor.act)
    /\ (pc = "recv" /\ xevents # <<>>) =>
          /\ xevents = EventsFrom(result, 1)
          /\ \A a \in DOMAIN result :
                /\ Len(SentOf(a)) = 3 * Len(result[a])
                /\ \A m \in Range(result[a]) :
                      LET of_m == SelectSeq(SentOf(a), LAMBDA e : e.detail = m)
                      IN  /\ of_m[1].type = "release"
                          /\ of_m[Len(of_m)].type = "release"
                          /\ Cardinality({i \in DOMAIN of_m :
                                             of_m[i].type = "press"}) = 1

\* C20: every activation forwarded gets the sequence release k1..kn, press
\* k1..kn, release k1..kn, once, and the event that ends the first or the
\* second phase of an activation is followed by the delay.
C20_InjectionSequence ==
    [][ /\ SequencesSent'
        /\ (Len(xevents') = Len(xevents) + 1 /\ AtPhaseEnd(cursor.act)')
               => pc' = "sleep"
      ]_vars

\* C20 witness: both activations of a transition were forwarded whole, the
\* first with two members: 6 + 3 events, and the loop is back in recv.
C20_Witness ==
    /\ pc = "recv"
    /\ Len(result) = 2 /\ Len(result[1]) = 2
    /\ Len(xevents) = 9
    /\ xevents = EventsFrom(result, 1)

-----------------------------------------------------------------------------
(* The listener with a toggle combo and two other combos *)

\* SplitKey <<1, 2>>, ResetKey <<2>>, ToggleGlobalHotkeys <<2>>, started
\* Enabled or Disabled: the press of 2 with 1 held makes all three active.
InitOrder ==
    /\ InitEngine("main")
    /\ hotkeys = <<<<1, 2>>, <<2>>>>
    /\ toggle_hotkey = <<<<2>>>>
    /\ InitListen
    /\ focused \in BOOLEAN
    /\ ResolverIdle

SpecOrder == InitOrder /\ [][NextInject]_vars

\* The combos of the table that are active on the last transition by the
\* activation rule, in the order of the table.
ActiveInTableOrder ==
    SelectSeq(hotkeys, LAMBDA combo : RuleActive(combo, last.key, state))

\* C21: the list main.rs returns for a transition is the toggle combo's
\* entry first when the toggle combo is active, then one entry for each
\* active combo of the table in table order when the engine is Enabled after
\* the toggle evaluation, and nothing else; the loop sends the events of the
\* entries in that order, entry after entry, none left out once it is back in
\* recv.
C21_ActivationOrder ==
    last.called =>
        LET first == IF RuleActive(ToggleCombo, last.key, state)
                     THEN <<Keycodes(ToggleCombo, min_keycode)>> ELSE <<>>
            rest  == IF hotkeys_enabled
                     THEN [i \in DOMAIN ActiveInTableOrder |->
                              Keycodes(ActiveInTableOrder[i], min_keycode)]
                     ELSE <<>>
        IN  /\ result = first \o rest
            /\ Len(result) <= Len(hotkeys) + Len(toggle_hotkey)
            /\ \A i \in DOMAIN xevents :
                  /\ xevents[i].act \in DOMAIN result
                  /\ xevents[i].detail \in Range(result[xevents[i].act])
                  /\ \A j \in DOMAIN xevents :
                        i < j => xevents[i].act <= xevents[j].act
                  /\ \A a \in 1..(xevents[i].act - 1) :
                        Len(SentOf(a)) = 3 * Len(result[a])
            /\ (pc = "recv" /\ xevents # <<>>) =>
                  \A a \in DOMAIN result : SentOf(a) # <<>>

\* C21 witness: a press toggled Disabled to Enabled with both other combos
\* active; the three entries, the toggle's first, were returned and their
\* twelve events sent.
C21_Witness ==
    /\ last.called /\ ~last.enabled /\ hotkeys_enabled
    /\ result = <<Keycodes(<<2>>, min_keycode), Keycodes(<<1, 2>>, min_keycode),
                  Keycodes(<<2>>, min_keycode)>>
    /\ pc = "recv"
    /\ Len(xevents) = 12
    /\ xevents[1].act = 1 /\ xevents[4].act = 2 /\ xevents[12].act = 3

-----------------------------------------------------------------------------
(* Kinds without a combo, release transitions *)

\* C22: a kind without a configured combo is never active.  check_hotkey is
\* false on the empty combo for every code in every PressState reached; in
\* key.rs the result of a call reports no kind with the empty combo, and the
\* Enabled bit stays when ToggleGlobalHotkeys has the empty combo; in main.rs
\* no entry of the returned list is empty or exceeds the configured combos,
\* and the Enabled bit stays when there is no toggle combo.
C22_UnconfiguredNeverActive ==
    /\ \A key \in KeyCodes :
          /\ ~key_check_hotkey(state, key, <<>>)
          /\ ~main_check_hotkey(state, key, <<>>)
    /\ (last.called /\ impl = "key") =>
          /\ \A h \in HotkeyKinds : hotkeys[h] = <<>> => ~result[h]
          /\ hotkeys["ToggleGlobalHotkeys"] = <<>> =>
                hotkeys_enabled = last.enabled
    /\ (last.called /\ impl = "main") =>
          /\ \A i \in DOMAIN result : result[i] # <<>>
          /\ toggle_hotkey = <<>> =>
                /\ hotkeys_enabled = last.enabled
                /\ Len(result) <= Len(hotkeys)

\* C22 witness: in key.rs, Enabled, a press made SplitKey active with keys
\* held, while ToggleGlobalHotkeys and SkipKey have no combo.
C22_Witness ==
    /\ impl = "key" /\ last.called /\ last.is_pressed /\ hotkeys_enabled
    /\ hotkeys["ToggleGlobalHotkeys"] = <<>> /\ hotkeys["SkipKey"] = <<>>
    /\ result["SplitKey"] /\ ~result["SkipKey"]
    /\ Cardinality(Held(state)) = 2

\* C23: a release fires nothing.  After every handle_key(code, false) that
\* returns, in both revisions, no kind is reported active, the returned list
\* is empty, and the Enabled bit is what it was; so an activation or a flip
\* of the bit is the work of a press.
C23_ReleaseFiresNothing ==
    /\ (last.called /\ ~last.is_pressed) =>
          /\ hotkeys_enabled = last.enabled
          /\ impl = "key" => \A h \in HotkeyKinds : ~result[h]
          /\ impl = "main" => result = <<>>
    /\ (last.called /\ (hotkeys_enabled # last.enabled
                           \/ (impl = "key" /\ \E h \in HotkeyKinds : result[h])
                           \/ (impl = "main" /\ result # <<>>)))
          => last.is_pressed

\* C23 witness: Enabled, every member of a two-key combo held, and one of
\* them released: the call returned with nothing active.
C23_Witness ==
    /\ last.called /\ ~last.is_pressed /\ last.enabled
    /\ \E combo \in ConfiguredCombos :
          /\ Len(combo) = 2
          /\ last.key \in Range(combo)
          /\ Range(combo) \subseteq Held(last.state)
    /\ ToggleCombo # <<>>

-----------------------------------------------------------------------------
(* The channel: nothing lost *)

\* The transitions of one device among those fed and those still in the
\* channel, in order.
InFlightOf(d) == SelectSeq(fed_log \o channel, LAMBDA t : t.dev = d)

\* C24 (as claimed): the transitions a reader has sent are, in its order,
\* those fed to handle_key followed by those still in the channel, each once;
\* and while no transport call has failed a transition in the channel can
\* still be received: the loop has not stopped with it left behind.
C24_NoTransitionLost ==
    /\ \A d \in Devices : InFlightOf(d) = sent_log[d]
    /\ (channel # <<>> /\ error = "none") => ~panicked

=============================================================================
